---- MODULE Spec2Model ----
(***************************************************************************)
(* Model of heft's EmitFilesPatch (TypeScriptPlugin/EmitFilesPatch.ts):    *)
(* the static patch state, install / uninstall, and the wrapped emitFiles  *)
(* that fans one emit call out over the module kinds to emit.              *)
(***************************************************************************)
EXTENDS Integers, Sequences, FiniteSets, TLC

VARIABLES
    patchedTs,      \* EmitFilesPatch._patchedTs
    baseEmitFiles,  \* EmitFilesPatch._baseEmitFiles
    emitFiles,      \* ts.emitFiles of every compiler object
    changedFiles,   \* contents of every changed-files Set the callers own
    lastCall,       \* the call in progress of being observed by its caller
    normalTargets,  \* history: per Set, the targets of the normal emit calls
                    \* made through a wrapper installed with that Set
    cleanup         \* history: the error of the last call when it was an
                    \* uninstall made on the failure of an install, or "n/a"

vars == <<patchedTs, baseEmitFiles, emitFiles, changedFiles, lastCall, normalTargets,
          cleanup>>

-----------------------------------------------------------------------------
(* Bounds and input universes *)

\* Longest moduleKindsToEmit list handed to install.
MaxVariants == 2

Undefined == "undefined"

\* The compiler objects (ExtendedTypeScript instances) of the process.
Compilers == {"ts1", "ts2"}

\* The changed-files Sets a caller may hand to install.
Sinks == {"changedFilesSet"}

SourceFiles == {"index.ts", "x.ts"}

ModuleKinds == {"CommonJS", "ESNext"}

OutFolderPath(moduleKind) == IF moduleKind = "CommonJS" THEN "/lib-commonjs" ELSE "/lib"

CacheOutFolderPath(moduleKind) == "/.heft/build-cache" \o OutFolderPath(moduleKind)

\* ICachedEmitModuleKind values: each module kind as primary and as secondary,
\* with its output folders resolved ...
ResolvedEmitModuleKinds ==
    {[moduleKind |-> k, outFolderPath |-> OutFolderPath(k),
      cacheOutFolderPath |-> CacheOutFolderPath(k), isPrimary |-> p] :
        k \in ModuleKinds, p \in BOOLEAN}

\* ... and a secondary one whose outFolderPath was left empty.
UnresolvedEmitModuleKind ==
    [moduleKind |-> "ESNext", outFolderPath |-> "",
     cacheOutFolderPath |-> CacheOutFolderPath("ESNext"), isPrimary |-> FALSE]

CachedEmitModuleKinds == ResolvedEmitModuleKinds \cup {UnresolvedEmitModuleKind}

RECURSIVE SeqsUpTo(_, _)
SeqsUpTo(S, n) ==
    IF n = 0 THEN {<<>>}
    ELSE LET shorter == SeqsUpTo(S, n - 1)
         IN  shorter \cup {Append(s, x) : s \in {t \in shorter : Len(t) = n - 1}, x \in S}

ModuleKindLists == SeqsUpTo(CachedEmitModuleKinds, MaxVariants)

\* tsconfig.options (the base configuration); "target" stands for every
\* option the patch never names.
TsconfigOptions ==
    [outDir |-> "/tsconfig-out", module |-> "CommonJS",
     declaration |-> TRUE, declarationMap |-> TRUE, target |-> "ES2017"]

-----------------------------------------------------------------------------
(* Function values: what ts.emitFiles and _baseEmitFiles can hold *)

\* A compiler object's own emitFiles.
OriginalEmitFiles(ts) ==
    [kind |-> "original", ts |-> ts, moduleKindsToEmit |-> <<>>,
     compilerOptionsMap |-> <<>>, changedFiles |-> Undefined,
     defaultModuleKind |-> Undefined]

UndefinedFn ==
    [kind |-> Undefined, ts |-> Undefined, moduleKindsToEmit |-> <<>>,
     compilerOptionsMap |-> <<>>, changedFiles |-> Undefined,
     defaultModuleKind |-> Undefined]

\* The arrow function install assigns to ts.emitFiles, with what it closes over.
WrappedEmitFiles(ts, moduleKindsToEmit, compilerOptionsMap, sink, defaultModuleKind) ==
    [kind |-> "wrapper", ts |-> ts, moduleKindsToEmit |-> moduleKindsToEmit,
     compilerOptionsMap |-> compilerOptionsMap, changedFiles |-> sink,
     defaultModuleKind |-> defaultModuleKind]

-----------------------------------------------------------------------------
(* install: the loop over moduleKindsToEmit *)

OutDirOf(moduleKindToEmit, useBuildCache) ==
    IF useBuildCache THEN moduleKindToEmit.cacheOutFolderPath
    ELSE moduleKindToEmit.outFolderPath

\* Mutant: a secondary module kind keeps the tsconfig's declarationMap.
DerivedOptionsKeepsDeclarationMap(options, moduleKindToEmit, useBuildCache) ==
    IF moduleKindToEmit.isPrimary
    THEN [options EXCEPT !.outDir = OutDirOf(moduleKindToEmit, useBuildCache)]
    ELSE [options EXCEPT !.outDir = OutDirOf(moduleKindToEmit, useBuildCache),
                         !.module = moduleKindToEmit.moduleKind,
                         !.declaration = FALSE]

\* The compiler options install derives for one module kind.
DerivedOptions(options, moduleKindToEmit, useBuildCache) ==
    IF moduleKindToEmit.isPrimary
    THEN [options EXCEPT !.outDir = OutDirOf(moduleKindToEmit, useBuildCache)]
    ELSE [options EXCEPT !.outDir = OutDirOf(moduleKindToEmit, useBuildCache),
                         !.module = moduleKindToEmit.moduleKind,
                         !.declaration = FALSE,
                         !.declarationMap = FALSE]

\* Mutant: a second primary is taken like the first, without complaint.
RECURSIVE InstallLoopLastPrimaryWins(_, _, _, _, _)
InstallLoopLastPrimaryWins(moduleKindsToEmit, options, useBuildCache, i, acc) ==
    IF i > Len(moduleKindsToEmit) THEN acc
    ELSE LET moduleKindToEmit == moduleKindsToEmit[i] IN
         InstallLoopLastPrimaryWins(moduleKindsToEmit, options, useBuildCache, i + 1,
             [foundPrimary |-> acc.foundPrimary \/ moduleKindToEmit.isPrimary,
              defaultModuleKind |->
                  IF moduleKindToEmit.isPrimary THEN moduleKindToEmit.moduleKind
                  ELSE acc.defaultModuleKind,
              compilerOptionsMap |->
                  Append(acc.compilerOptionsMap,
                         DerivedOptions(options, moduleKindToEmit, useBuildCache)),
              thrown |-> FALSE])

\* State of the loop: foundPrimary, defaultModuleKind, compilerOptionsMap (kept
\* in list order: the map is only ever read with the list's own elements), and
\* whether 'Multiple primary module emit kinds encountered.' was thrown.
RECURSIVE InstallLoop(_, _, _, _, _)
InstallLoop(moduleKindsToEmit, options, useBuildCache, i, acc) ==
    IF i > Len(moduleKindsToEmit) THEN acc
    ELSE LET moduleKindToEmit == moduleKindsToEmit[i] IN
         IF moduleKindToEmit.isPrimary /\ acc.foundPrimary
         THEN [acc EXCEPT !.thrown = TRUE]
         ELSE InstallLoop(moduleKindsToEmit, options, useBuildCache, i + 1,
                 [foundPrimary |-> acc.foundPrimary \/ moduleKindToEmit.isPrimary,
                  defaultModuleKind |->
                      IF moduleKindToEmit.isPrimary THEN moduleKindToEmit.moduleKind
                      ELSE acc.defaultModuleKind,
                  compilerOptionsMap |->
                      Append(acc.compilerOptionsMap,
                             DerivedOptions(options, moduleKindToEmit, useBuildCache)),
                  thrown |-> FALSE])

InstallLoopResult(moduleKindsToEmit, options, useBuildCache) ==
    InstallLoop(moduleKindsToEmit, options, useBuildCache, 1,
                [foundPrimary |-> FALSE, defaultModuleKind |-> Undefined,
                 compilerOptionsMap |-> <<>>, thrown |-> FALSE])

NumPrimaries(moduleKindsToEmit) ==
    Cardinality({i \in 1..Len(moduleKindsToEmit) : moduleKindsToEmit[i].isPrimary})

-----------------------------------------------------------------------------
(* The compiler's side of the seam *)

\* ts.getTransformers(compilerOptions, customTransformers, emitOnlyDtsFiles):
\* the transformer set is a function of its three arguments.
GetTransformers(compilerOptions, customTransformers, emitOnlyDtsFiles) ==
    [compilerOptions |-> compilerOptions,
     customTransformers |-> customTransformers,
     emitOnlyDtsFiles |-> emitOnlyDtsFiles]

\* The host the compiler passes: getCompilerOptions() returns the program's
\* own (ambient) options; writeFile stands for everything else it carries.
CallerHost == [getCompilerOptions |-> TsconfigOptions, writeFile |-> "writeFile"]

\* The arguments of one emitFiles call as the compiler makes it.
EmitArguments ==
    [resolver : {"resolver"},
     host : {CallerHost},
     targetSourceFile : SourceFiles \cup {Undefined},
     emitTransformers : {GetTransformers(TsconfigOptions, "customTransformers", FALSE)},
     emitOnlyDtsFiles : BOOLEAN,
     onlyBuildInfo : BOOLEAN,
     forceDtsEmit : BOOLEAN]

NoArguments == [resolver |-> Undefined]

\* What one run of the original emitFiles does is the compiler's business:
\* it returns a result with emitSkipped unset or set, or it throws.
Outcomes == {"emitted", "skipped", "throws"}

\* One outcome for each of the n underlying invocations an emit call can make.
Oracles(n) == [1..n -> Outcomes]

NoResult == [emitSkipped |-> FALSE, diagnostics |-> Undefined, emittedFiles |-> Undefined]

\* The EmitResult of the k-th underlying invocation of a call: its own
\* diagnostics object, and the files it wrote under the host's outDir.
OriginalResult(arguments, outcome, k) ==
    [emitSkipped |-> (outcome = "skipped"),
     diagnostics |-> "diagnostics#" \o ToString(k),
     emittedFiles |-> IF outcome = "skipped" THEN ""
                      ELSE arguments.host.getCompilerOptions.outDir]

\* Calling the function value fn with the given arguments, as the k-th
\* underlying invocation.  calls lists the invocations of an original
\* emitFiles that were made.
CallEmitFiles(fn, arguments, outcome, k) ==
    CASE fn.kind = "original" ->
            [calls |-> <<[fn |-> fn, arguments |-> arguments,
                          threw |-> (outcome = "throws"),
                          result |-> IF outcome = "throws" THEN NoResult
                                     ELSE OriginalResult(arguments, outcome, k)]>>,
             error |-> IF outcome = "throws" THEN "EmitError" ELSE "none",
             result |-> IF outcome = "throws" THEN NoResult
                        ELSE OriginalResult(arguments, outcome, k)]
      [] fn.kind = "wrapper" ->
            \* _baseEmitFiles holding a wrapper: the wrapper calls
            \* _baseEmitFiles again, without end.
            [calls |-> <<>>, error |-> "RangeError", result |-> NoResult]
      [] OTHER ->
            \* undefined is not a function
            [calls |-> <<>>, error |-> "TypeError", result |-> NoResult]

-----------------------------------------------------------------------------
(* The wrapped emitFiles *)

\* Mutant: the declarations-only flag is not looked at.
IsPassThroughBuildInfoOnly(arguments) == arguments.onlyBuildInfo

IsPassThrough(arguments) == arguments.onlyBuildInfo \/ arguments.emitOnlyDtsFiles

\* Mutant: the host is handed on as the caller gave it.
FlavorArgumentsCallerHost(arguments, compilerOptions) ==
    [arguments EXCEPT
        !.emitTransformers =
            GetTransformers(compilerOptions, Undefined, arguments.emitOnlyDtsFiles)]

\* The arguments of the underlying invocation for one module kind.
FlavorArguments(arguments, compilerOptions) ==
    [arguments EXCEPT
        !.host = [arguments.host EXCEPT !.getCompilerOptions = compilerOptions],
        !.emitTransformers =
            GetTransformers(compilerOptions, Undefined, arguments.emitOnlyDtsFiles)]

\* Whether this module kind's result becomes defaultModuleKindResult.
IsDefaultModuleKind(moduleKindToEmit, defaultModuleKind) ==
    moduleKindToEmit.moduleKind = defaultModuleKind

\* Mutant: a failed invocation is caught and the loop goes on to the next
\* module kind.
RECURSIVE FanOutCatchesAndContinues(_, _, _, _, _, _)
FanOutCatchesAndContinues(wrapper, base, arguments, oracle, i, acc) ==
    IF i > Len(wrapper.moduleKindsToEmit) THEN acc
    ELSE LET moduleKindToEmit == wrapper.moduleKindsToEmit[i]
             compilerOptions == wrapper.compilerOptionsMap[i]
         IN  IF compilerOptions.outDir = ""
             THEN [acc EXCEPT !.error = "InternalError"]
             ELSE LET flavor == CallEmitFiles(base,
                                    FlavorArguments(arguments, compilerOptions),
                                    oracle[i], Len(acc.calls) + 1)
                      isDefault == flavor.error = "none" /\
                                   IsDefaultModuleKind(moduleKindToEmit,
                                                       wrapper.defaultModuleKind)
                  IN  FanOutCatchesAndContinues(wrapper, base, arguments, oracle, i + 1,
                         [calls |-> acc.calls \o flavor.calls,
                          emitSkipped |-> acc.emitSkipped \/ flavor.result.emitSkipped,
                          assigned |-> acc.assigned \/ isDefault,
                          defaultModuleKindResult |->
                              IF isDefault THEN flavor.result
                              ELSE acc.defaultModuleKindResult,
                          error |-> "none"])

\* The loop over moduleKindsToEmit, from its i-th element on.  acc carries the
\* invocations made so far, emitSkipped, defaultModuleKindResult and whether
\* it has been assigned, and the error that ended the loop.
RECURSIVE FanOut(_, _, _, _, _, _)
FanOut(wrapper, base, arguments, oracle, i, acc) ==
    IF i > Len(wrapper.moduleKindsToEmit) THEN acc
    ELSE LET moduleKindToEmit == wrapper.moduleKindsToEmit[i]
             compilerOptions == wrapper.compilerOptionsMap[i]
         IN  IF compilerOptions.outDir = ""
             THEN [acc EXCEPT !.error = "InternalError"]
             ELSE LET flavor == CallEmitFiles(base,
                                    FlavorArguments(arguments, compilerOptions),
                                    oracle[i], Len(acc.calls) + 1)
                  IN  IF flavor.error # "none"
                      THEN [acc EXCEPT !.calls = acc.calls \o flavor.calls,
                                       !.error = flavor.error]
                      ELSE FanOut(wrapper, base, arguments, oracle, i + 1,
                             [calls |-> acc.calls \o flavor.calls,
                              emitSkipped |-> acc.emitSkipped \/ flavor.result.emitSkipped,
                              assigned |->
                                  acc.assigned \/
                                  IsDefaultModuleKind(moduleKindToEmit,
                                                      wrapper.defaultModuleKind),
                              defaultModuleKindResult |->
                                  IF IsDefaultModuleKind(moduleKindToEmit,
                                                         wrapper.defaultModuleKind)
                                  THEN flavor.result
                                  ELSE acc.defaultModuleKindResult,
                              error |-> "none"])

\* Mutant: the accumulated emitSkipped is not written over the base result's.
MergedResultKeepsEmitSkipped(loop) ==
    [emitSkipped |-> loop.assigned /\ loop.defaultModuleKindResult.emitSkipped,
     diagnostics |-> IF loop.assigned THEN loop.defaultModuleKindResult.diagnostics
                     ELSE Undefined,
     emittedFiles |-> IF loop.assigned THEN loop.defaultModuleKindResult.emittedFiles
                      ELSE Undefined]

\* { ...defaultModuleKindResult, emitSkipped }: spreading undefined adds nothing.
MergedResult(loop) ==
    [emitSkipped |-> loop.emitSkipped,
     diagnostics |-> IF loop.assigned THEN loop.defaultModuleKindResult.diagnostics
                     ELSE Undefined,
     emittedFiles |-> IF loop.assigned THEN loop.defaultModuleKindResult.emittedFiles
                      ELSE Undefined]

\* A call of the wrapper: the invocations it makes, how it ends, what it
\* returns.  base is _baseEmitFiles at the time of the call.
CallWrapper(wrapper, base, arguments, oracle) ==
    IF IsPassThrough(arguments)
    THEN CallEmitFiles(base, arguments, oracle[1], 1)
    ELSE LET loop == FanOut(wrapper, base, arguments, oracle, 1,
                            [calls |-> <<>>, emitSkipped |-> FALSE,
                             assigned |-> FALSE,
                             defaultModuleKindResult |-> NoResult,
                             error |-> "none"])
         IN  [calls |-> loop.calls,
              error |-> loop.error,
              result |-> IF loop.error = "none" THEN MergedResult(loop) ELSE NoResult]

\* Mutant: the target is recorded before the flags are looked at.
RecordsChangeRegardlessOfFlags(wrapper, arguments) ==
    /\ arguments.targetSourceFile # Undefined
    /\ wrapper.changedFiles # Undefined

\* Mutant: the test of the flags is the wrong way round.
RecordsChangeWhenFlagged(wrapper, arguments) ==
    /\ IsPassThrough(arguments)
    /\ arguments.targetSourceFile # Undefined
    /\ wrapper.changedFiles # Undefined

\* Whether the call records its target in the wrapper's changed-files Set.
RecordsChange(wrapper, arguments) ==
    /\ ~IsPassThrough(arguments)
    /\ arguments.targetSourceFile # Undefined
    /\ wrapper.changedFiles # Undefined

-----------------------------------------------------------------------------
(* The state machine *)

NoCall ==
    [op |-> "none", ts |-> Undefined, primaries |-> 0, useBuildCache |-> FALSE,
     arguments |-> NoArguments,
     calls |-> <<>>, error |-> "none", result |-> NoResult]

Init ==
    /\ patchedTs = Undefined
    /\ baseEmitFiles = UndefinedFn
    /\ emitFiles = [ts \in Compilers |-> OriginalEmitFiles(ts)]
    /\ changedFiles = [s \in Sinks |-> {}]
    /\ lastCall = NoCall
    /\ normalTargets = [s \in Sinks |-> {}]
    /\ cleanup = "n/a"

\* Mutant: install does not look for an existing patch.
NeverAlreadyInstalled == FALSE

\* The guard at the top of install.
AlreadyInstalled == patchedTs # Undefined

\* Mutant: install records the compiler once the list has passed validation.
InstallRecordsAfterValidation(ts, moduleKindsToEmit, useBuildCache, sink) ==
    LET loop == InstallLoopResult(moduleKindsToEmit, TsconfigOptions, useBuildCache)
        call == [NoCall EXCEPT !.op = "install", !.ts = ts,
                               !.primaries = NumPrimaries(moduleKindsToEmit),
                               !.useBuildCache = useBuildCache]
    IN  /\ IF AlreadyInstalled
           THEN /\ lastCall' = [call EXCEPT !.error = "PatchAlreadyInstalledError"]
                /\ UNCHANGED <<patchedTs, baseEmitFiles, emitFiles>>
           ELSE IF loop.thrown
           THEN /\ lastCall' = [call EXCEPT !.error = "ConfigurationError"]
                /\ UNCHANGED <<patchedTs, baseEmitFiles, emitFiles>>
           ELSE /\ lastCall' = call
                /\ patchedTs' = ts
                /\ baseEmitFiles' = emitFiles[ts]
                /\ emitFiles' =
                      [emitFiles EXCEPT ![ts] =
                          WrappedEmitFiles(ts, moduleKindsToEmit,
                                           loop.compilerOptionsMap, sink,
                                           loop.defaultModuleKind)]
        /\ UNCHANGED <<changedFiles, normalTargets>>

\* EmitFilesPatch.install(ts, tsconfig, moduleKindsToEmit, useBuildCache, changedFiles)
Install(ts, moduleKindsToEmit, useBuildCache, sink) ==
    LET loop == InstallLoopResult(moduleKindsToEmit, TsconfigOptions, useBuildCache)
        call == [NoCall EXCEPT !.op = "install", !.ts = ts,
                               !.primaries = NumPrimaries(moduleKindsToEmit),
                               !.useBuildCache = useBuildCache]
    IN  /\ IF AlreadyInstalled
           THEN /\ lastCall' = [call EXCEPT !.error = "PatchAlreadyInstalledError"]
                /\ UNCHANGED <<patchedTs, baseEmitFiles, emitFiles>>
           ELSE /\ patchedTs' = ts
                /\ baseEmitFiles' = emitFiles[ts]
                /\ IF loop.thrown
                   THEN /\ lastCall' = [call EXCEPT !.error = "ConfigurationError"]
                        /\ UNCHANGED emitFiles
                   ELSE /\ lastCall' = call
                        /\ emitFiles' =
                              [emitFiles EXCEPT ![ts] =
                                  WrappedEmitFiles(ts, moduleKindsToEmit,
                                                   loop.compilerOptionsMap, sink,
                                                   loop.defaultModuleKind)]
        /\ UNCHANGED <<changedFiles, normalTargets>>

\* EmitFilesPatch.isInstalled
IsInstalled == patchedTs # Undefined

\* Mutant: uninstall does not compare its argument with the patched object.
UninstallErrorNoMismatch(ts) ==
    IF patchedTs = Undefined THEN "NoActivePatchError" ELSE "none"

\* The two guards at the top of uninstall: the error thrown, or "none".
UninstallError(ts) ==
    IF patchedTs = Undefined THEN "NoActivePatchError"
    ELSE IF ts # patchedTs THEN "PatchMismatchError"
    ELSE "none"

\* Mutant: uninstall clears the static fields and leaves ts.emitFiles alone.
UninstallKeepsWrapper(ts) ==
    /\ lastCall' = [NoCall EXCEPT !.op = "uninstall", !.ts = ts,
                                  !.error = UninstallError(ts)]
    /\ IF UninstallError(ts) # "none"
       THEN UNCHANGED <<patchedTs, baseEmitFiles>>
       ELSE /\ patchedTs' = Undefined
            /\ baseEmitFiles' = UndefinedFn
    /\ UNCHANGED <<emitFiles, changedFiles, normalTargets>>

\* EmitFilesPatch.uninstall(ts)
Uninstall(ts) ==
    LET call == [NoCall EXCEPT !.op = "uninstall", !.ts = ts,
                               !.error = UninstallError(ts)]
    IN  /\ lastCall' = call
        /\ IF UninstallError(ts) # "none"
           THEN UNCHANGED <<patchedTs, baseEmitFiles, emitFiles>>
           ELSE /\ emitFiles' = [emitFiles EXCEPT ![ts] = baseEmitFiles]
                /\ patchedTs' = Undefined
                /\ baseEmitFiles' = UndefinedFn
        /\ UNCHANGED <<changedFiles, normalTargets>>

\* How many underlying invocations a call of fn can make at most.
MaxInvocations(fn, arguments) ==
    IF fn.kind = "wrapper" /\ ~IsPassThrough(arguments)
    THEN Len(fn.moduleKindsToEmit)
    ELSE 1

\* Mutant: the target is recorded once the fan-out has returned.
EmitRecordsAfterFanOut(ts, arguments, oracle) ==
    LET fn == emitFiles[ts]
        done == IF fn.kind = "wrapper"
                THEN CallWrapper(fn, baseEmitFiles, arguments, oracle)
                ELSE CallEmitFiles(fn, arguments, oracle[1], 1)
    IN  /\ lastCall' = [NoCall EXCEPT !.op = "emit", !.ts = ts,
                                      !.arguments = arguments,
                                      !.calls = done.calls,
                                      !.error = done.error,
                                      !.result = done.result]
        /\ changedFiles' =
              IF fn.kind = "wrapper" /\ RecordsChange(fn, arguments) /\ done.error = "none"
              THEN [changedFiles EXCEPT ![fn.changedFiles] = @ \cup {arguments.targetSourceFile}]
              ELSE changedFiles
        /\ normalTargets' =
              IF /\ fn.kind = "wrapper"
                 /\ ~arguments.emitOnlyDtsFiles
                 /\ ~arguments.onlyBuildInfo
                 /\ arguments.targetSourceFile # Undefined
                 /\ fn.changedFiles # Undefined
              THEN [normalTargets EXCEPT ![fn.changedFiles] = @ \cup {arguments.targetSourceFile}]
              ELSE normalTargets
        /\ UNCHANGED <<patchedTs, baseEmitFiles, emitFiles>>

\* The compiler calls ts.emitFiles(...): whatever function is there runs.
Emit(ts, arguments, oracle) ==
    LET fn == emitFiles[ts]
        done == IF fn.kind = "wrapper"
                THEN CallWrapper(fn, baseEmitFiles, arguments, oracle)
                ELSE CallEmitFiles(fn, arguments, oracle[1], 1)
    IN  /\ lastCall' = [NoCall EXCEPT !.op = "emit", !.ts = ts,
                                      !.arguments = arguments,
                                      !.calls = done.calls,
                                      !.error = done.error,
                                      !.result = done.result]
        /\ changedFiles' =
              IF fn.kind = "wrapper" /\ RecordsChange(fn, arguments)
              THEN [changedFiles EXCEPT ![fn.changedFiles] = @ \cup {arguments.targetSourceFile}]
              ELSE changedFiles
        /\ normalTargets' =
              IF /\ fn.kind = "wrapper"
                 /\ ~arguments.emitOnlyDtsFiles
                 /\ ~arguments.onlyBuildInfo
                 /\ arguments.targetSourceFile # Undefined
                 /\ fn.changedFiles # Undefined
              THEN [normalTargets EXCEPT ![fn.changedFiles] = @ \cup {arguments.targetSourceFile}]
              ELSE normalTargets
        /\ UNCHANGED <<patchedTs, baseEmitFiles, emitFiles>>

\* The caller has seen the outcome of its call and goes on.
CallerProceeds ==
    /\ lastCall.op # "none"
    /\ lastCall' = NoCall
    /\ UNCHANGED <<patchedTs, baseEmitFiles, emitFiles, changedFiles, normalTargets,
                   cleanup>>

\* Calls are synchronous: the next one is made once the last has ended.
Idle == lastCall.op = "none"

InstallCall ==
    /\ Idle
    /\ \E ts \in Compilers, moduleKindsToEmit \in ModuleKindLists,
          useBuildCache \in BOOLEAN, sink \in Sinks \cup {Undefined} :
          Install(ts, moduleKindsToEmit, useBuildCache, sink)
    /\ cleanup' = "n/a"

UninstallCall ==
    /\ Idle
    /\ \E ts \in Compilers : Uninstall(ts)
    /\ cleanup' = "n/a"

\* The caller of an install that threw calls uninstall on the same compiler
\* on its way out (try / finally).
CleanupCall ==
    /\ lastCall.op = "install"
    /\ lastCall.error # "none"
    /\ Uninstall(lastCall.ts)
    /\ cleanup' = UninstallError(lastCall.ts)

EmitCall ==
    /\ Idle
    /\ \E ts \in Compilers, arguments \in EmitArguments :
          \E oracle \in Oracles(MaxInvocations(emitFiles[ts], arguments)) :
             Emit(ts, arguments, oracle)
    /\ cleanup' = "n/a"

Next == InstallCall \/ UninstallCall \/ CleanupCall \/ EmitCall \/ CallerProceeds

Spec == Init /\ [][Next]_vars

-----------------------------------------------------------------------------
(* Properties *)

\* The function the caller of the last call ran (no call changes emitFiles
\* of a compiler while an emit call is being observed).
Called == emitFiles[lastCall.ts]

EmitViaWrapper == lastCall.op = "emit" /\ Called.kind = "wrapper"

NormalEmit ==
    /\ EmitViaWrapper
    /\ ~lastCall.arguments.emitOnlyDtsFiles
    /\ ~lastCall.arguments.onlyBuildInfo

FlaggedEmit ==
    /\ EmitViaWrapper
    /\ (lastCall.arguments.emitOnlyDtsFiles \/ lastCall.arguments.onlyBuildInfo)

Returned == lastCall.error = "none"

\* The i-th underlying invocation of the last call is the one for the i-th
\* module kind: the original emitFiles, the caller's resolver, target and
\* flags, a host answering with that kind's derived options, transformers
\* derived from those same options.
InvocationForVariant(i) ==
    LET inv == lastCall.calls[i]
        derived == Called.compilerOptionsMap[i]
    IN  /\ inv.fn = OriginalEmitFiles(lastCall.ts)
        /\ inv.arguments.resolver = lastCall.arguments.resolver
        /\ inv.arguments.targetSourceFile = lastCall.arguments.targetSourceFile
        /\ inv.arguments.host.getCompilerOptions = derived
        /\ inv.arguments.host.writeFile = lastCall.arguments.host.writeFile
        /\ inv.arguments.emitTransformers.compilerOptions = derived
        /\ inv.arguments.forceDtsEmit = lastCall.arguments.forceDtsEmit

\* C1 as claimed: every normal emit call through the wrapper makes exactly
\* |V| underlying invocations, the i-th one for the i-th variant.
C1_EveryNormalEmitFansOutOverAll ==
    NormalEmit =>
        /\ Len(lastCall.calls) = Len(Called.moduleKindsToEmit)
        /\ \A i \in 1..Len(lastCall.calls) : InvocationForVariant(i)

\* C1 (amended): every normal emit call through the wrapper that returns has
\* made exactly |V| underlying invocations, the i-th one for the i-th variant
\* of V; a call that fails has made such invocations for a prefix of V only.
C1_ReturnedNormalEmitFansOutOverAll ==
    NormalEmit =>
        /\ Len(lastCall.calls) <= Len(Called.moduleKindsToEmit)
        /\ \A i \in 1..Len(lastCall.calls) : InvocationForVariant(i)
        /\ Returned => Len(lastCall.calls) = Len(Called.moduleKindsToEmit)

\* A returned fan-out over two variants whose derived options differ.
C1_Witness ==
    /\ NormalEmit
    /\ Returned
    /\ Len(lastCall.calls) = 2
    /\ lastCall.calls[1].arguments.host.getCompilerOptions.module
         # lastCall.calls[2].arguments.host.getCompilerOptions.module
    /\ lastCall.calls[1].arguments.host.getCompilerOptions
         # lastCall.arguments.host.getCompilerOptions

\* C2: an emit call through the wrapper with 'declarations only' or
\* 'build-info only' set invokes the original emitFiles exactly once, with
\* the caller's arguments unchanged, and ends as that invocation ends: it
\* returns its result, or fails as it failed.
C2_FlaggedEmitPassesThroughOnce ==
    FlaggedEmit =>
        /\ Len(lastCall.calls) = 1
        /\ lastCall.calls[1].fn = OriginalEmitFiles(lastCall.ts)
        /\ lastCall.calls[1].arguments = lastCall.arguments
        /\ Returned <=> ~lastCall.calls[1].threw
        /\ Returned => lastCall.result = lastCall.calls[1].result

\* A declarations-only call (build-info flag unset) through a wrapper
\* installed over two variants.
C2_Witness ==
    /\ FlaggedEmit
    /\ Len(Called.moduleKindsToEmit) = 2
    /\ lastCall.arguments.emitOnlyDtsFiles
    /\ ~lastCall.arguments.onlyBuildInfo
    /\ Returned
    /\ lastCall.result.emittedFiles = TsconfigOptions.outDir

\* C3: the emitSkipped of a returned normal emit call is the OR of the
\* emitSkipped of the results of all its per-variant invocations.
C3_EmitSkippedIsOrOfVariants ==
    (NormalEmit /\ Returned) =>
        /\ Len(lastCall.calls) = Len(Called.moduleKindsToEmit)
        /\ lastCall.result.emitSkipped
             = (\E i \in 1..Len(lastCall.calls) : lastCall.calls[i].result.emitSkipped)

\* Only the secondary, second variant skipped, and the call reports skipped.
C3_Witness ==
    /\ NormalEmit
    /\ Returned
    /\ Len(lastCall.calls) = 2
    /\ Called.moduleKindsToEmit[1].isPrimary
    /\ ~lastCall.calls[1].result.emitSkipped
    /\ lastCall.calls[2].result.emitSkipped
    /\ lastCall.result.emitSkipped

\* C4 as claimed: a returned normal emit call has the diagnostics and the
\* emitted files of the underlying invocation made for the primary variant.
C4_ResultIsPrimaryVariantsResult ==
    (NormalEmit /\ Returned) =>
        \E i \in 1..Len(lastCall.calls) :
            /\ Called.moduleKindsToEmit[i].isPrimary
            /\ lastCall.result.diagnostics = lastCall.calls[i].result.diagnostics
            /\ lastCall.result.emittedFiles = lastCall.calls[i].result.emittedFiles

\* Every compiler object has the emitFiles it started with.
AllOriginal == \A ts \in Compilers : emitFiles[ts] = OriginalEmitFiles(ts)

\* C5: a successful uninstall leaves isInstalled false; whenever isInstalled
\* is false every compiler object has its original emitFiles back, and an
\* emit call made then is one underlying invocation with the caller's own
\* arguments and result.
C5_UninstallRestoresOriginal ==
    /\ (lastCall.op = "uninstall" /\ Returned) => ~IsInstalled
    /\ ~IsInstalled => AllOriginal
    /\ (lastCall.op = "emit" /\ ~IsInstalled) =>
          /\ Len(lastCall.calls) = 1
          /\ lastCall.calls[1].fn = OriginalEmitFiles(lastCall.ts)
          /\ lastCall.calls[1].arguments = lastCall.arguments
          /\ Returned => lastCall.result = lastCall.calls[1].result

\* An uninstall has just succeeded after normal emit calls went through the
\* wrapper (they left both source files in the changed-files Set).
C5_Witness ==
    /\ lastCall.op = "uninstall"
    /\ Returned
    /\ \E s \in Sinks : changedFiles[s] = SourceFiles
    /\ AllOriginal

\* C6: install called while a patch is recorded fails with
\* PatchAlreadyInstalledError and changes neither the static fields nor any
\* compiler's emitFiles (the wrapper with its list and Set) nor any Set.
C6_SecondInstallFailsAndChangesNothing ==
    [][(IsInstalled /\ lastCall'.op = "install") =>
          /\ lastCall'.error = "PatchAlreadyInstalledError"
          /\ UNCHANGED <<patchedTs, baseEmitFiles, emitFiles, changedFiles>>]_vars

\* A rejected install on the other compiler object, the wrapper still in place.
C6_Witness ==
    /\ lastCall.op = "install"
    /\ lastCall.error = "PatchAlreadyInstalledError"
    /\ IsInstalled
    /\ lastCall.ts # patchedTs
    /\ emitFiles[patchedTs].kind = "wrapper"
    /\ emitFiles[lastCall.ts] = OriginalEmitFiles(lastCall.ts)

\* C7: uninstall fails with NoActivePatchError when nothing is recorded and
\* with PatchMismatchError when another compiler object is recorded; either
\* way the static fields, every emitFiles and every Set stay as they were.
C7_UninstallErrorsChangeNothing ==
    [][(lastCall'.op = "uninstall" /\ lastCall'.ts # patchedTs) =>
          /\ lastCall'.error =
                IF patchedTs = Undefined THEN "NoActivePatchError"
                ELSE "PatchMismatchError"
          /\ UNCHANGED <<patchedTs, baseEmitFiles, emitFiles, changedFiles>>]_vars

\* A mismatched uninstall, the wrapper still in place on the patched object.
C7_Witness ==
    /\ lastCall.op = "uninstall"
    /\ lastCall.error = "PatchMismatchError"
    /\ IsInstalled
    /\ emitFiles[patchedTs].kind = "wrapper"

\* C8: install with two or more primary variants fails -- with the
\* configuration error whenever no patch was recorded before the call -- and
\* leaves every emitFiles as it was, the compiler's own still the original.
C8_MultiplePrimariesRejected ==
    [][(lastCall'.op = "install" /\ lastCall'.primaries >= 2) =>
          /\ lastCall'.error # "none"
          /\ ~IsInstalled => lastCall'.error = "ConfigurationError"
          /\ UNCHANGED emitFiles
          /\ ~IsInstalled => emitFiles'[lastCall'.ts] = OriginalEmitFiles(lastCall'.ts)]_vars

\* An install of a list with two primaries has just failed in validation.
C8_Witness ==
    /\ lastCall.op = "install"
    /\ lastCall.primaries = 2
    /\ lastCall.error = "ConfigurationError"
    /\ emitFiles[lastCall.ts] = OriginalEmitFiles(lastCall.ts)

\* C9 as claimed: install with a list without a primary fails, so no wrapper
\* ever multiplexes over a list without a primary.
C9_NoPrimaryRejected ==
    /\ (lastCall.op = "install" /\ lastCall.primaries = 0) => lastCall.error # "none"
    /\ \A ts \in Compilers :
          emitFiles[ts].kind = "wrapper" =>
              NumPrimaries(emitFiles[ts].moduleKindsToEmit) >= 1

\* C10 as claimed: the only states are 'uninstalled' (nothing recorded, every
\* emitFiles original) and 'installed' (a compiler recorded with its original
\* emitFiles saved, its emitFiles the wrapper).
C10_OnlyUninstalledOrInstalled ==
    \/ /\ ~IsInstalled
       /\ baseEmitFiles = UndefinedFn
       /\ AllOriginal
    \/ /\ IsInstalled
       /\ baseEmitFiles = OriginalEmitFiles(patchedTs)
       /\ emitFiles[patchedTs].kind = "wrapper"

\* The call being made in the step is a normal emit call with a target, through
\* a wrapper installed with a changed-files Set.
RecordingEmitStep ==
    /\ lastCall'.op = "emit"
    /\ emitFiles[lastCall'.ts].kind = "wrapper"
    /\ ~lastCall'.arguments.emitOnlyDtsFiles
    /\ ~lastCall'.arguments.onlyBuildInfo
    /\ lastCall'.arguments.targetSourceFile # Undefined
    /\ emitFiles[lastCall'.ts].changedFiles # Undefined

\* C11: a normal emit call with a target, through a wrapper installed with a
\* changed-files Set, leaves the target in that Set; when the target was in
\* it already the Set is left as it was (the target is not in it twice).
C11_TargetRecordedOnceIdempotently ==
    [][RecordingEmitStep =>
          LET sink == emitFiles[lastCall'.ts].changedFiles
              target == lastCall'.arguments.targetSourceFile
          IN  /\ target \in changedFiles'[sink]
              /\ changedFiles'[sink] \ {target} = changedFiles[sink] \ {target}
              /\ target \in changedFiles[sink] => changedFiles' = changedFiles]_vars

\* A returned normal emit call for a target, the Set holding just that target.
C11_Witness ==
    /\ NormalEmit
    /\ Returned
    /\ Called.changedFiles # Undefined
    /\ lastCall.arguments.targetSourceFile # Undefined
    /\ changedFiles[Called.changedFiles] = {lastCall.arguments.targetSourceFile}
    /\ Len(lastCall.calls) = 2

\* C12: after a successful install, the options derived for each variant have
\* as outDir the variant's cacheOutFolderPath when useBuildCache is set and
\* its outFolderPath otherwise; the primary's are the tsconfig's in every
\* other option; a secondary's have the variant's module kind, declaration
\* and declarationMap off, and the tsconfig's remaining options; so at most
\* one variant is left with declaration emission on.
C12_DerivedOptions ==
    (lastCall.op = "install" /\ Returned) =>
        LET V == Called.moduleKindsToEmit
            M == Called.compilerOptionsMap
        IN  /\ Len(M) = Len(V)
            /\ \A i \in 1..Len(V) :
                  /\ M[i].outDir = IF lastCall.useBuildCache
                                   THEN V[i].cacheOutFolderPath
                                   ELSE V[i].outFolderPath
                  /\ M[i].target = TsconfigOptions.target
                  /\ V[i].isPrimary =>
                        /\ M[i].module = TsconfigOptions.module
                        /\ M[i].declaration = TsconfigOptions.declaration
                        /\ M[i].declarationMap = TsconfigOptions.declarationMap
                  /\ ~V[i].isPrimary =>
                        /\ M[i].module = V[i].moduleKind
                        /\ ~M[i].declaration
                        /\ ~M[i].declarationMap
            /\ Cardinality({i \in 1..Len(V) : M[i].declaration \/ M[i].declarationMap}) <= 1

\* Installed in build-cache mode over a primary and a secondary of another
\* module kind: only the primary keeps declaration emission.
C12_Witness ==
    /\ lastCall.op = "install"
    /\ Returned
    /\ lastCall.useBuildCache
    /\ Len(Called.moduleKindsToEmit) = 2
    /\ Called.moduleKindsToEmit[1].isPrimary
    /\ ~Called.moduleKindsToEmit[2].isPrimary
    /\ Called.compilerOptionsMap[1].declaration
    /\ ~Called.compilerOptionsMap[2].declaration
    /\ Called.compilerOptionsMap[2].module = "ESNext"
    /\ Called.compilerOptionsMap[2].outDir = CacheOutFolderPath("ESNext")

\* C13: when the original emitFiles throws in the k-th underlying invocation
\* of a normal emit call, the call fails with that error, the k-th invocation
\* is the last one made, and the invocations made are one each for the first
\* k variants, in order (none is made again).
C13_FailureAbortsFanOut ==
    NormalEmit =>
        \A k \in 1..Len(lastCall.calls) :
            lastCall.calls[k].threw =>
                /\ lastCall.error = "EmitError"
                /\ lastCall.result = NoResult
                /\ k = Len(lastCall.calls)
                /\ k <= Len(Called.moduleKindsToEmit)
                /\ \A i \in 1..k : InvocationForVariant(i)

\* The first of two variants failed: one invocation, the call failed.
C13_Witness ==
    /\ NormalEmit
    /\ Len(Called.moduleKindsToEmit) = 2
    /\ Called.compilerOptionsMap[2].outDir # ""
    /\ Len(lastCall.calls) = 1
    /\ lastCall.calls[1].threw
    /\ lastCall.error = "EmitError"

\* C14 as claimed: a list with a variant whose effective output path is empty
\* is rejected before any emission, so under such a list no normal emit call
\* ever makes an underlying invocation.
C14_NoEmissionWithEmptyOutDir ==
    (NormalEmit /\ \E i \in 1..Len(Called.compilerOptionsMap) :
                       Called.compilerOptionsMap[i].outDir = "") =>
        Len(lastCall.calls) = 0

\* C15 as claimed: a list in which two variants have the same module kind is
\* rejected by install, so no normal emit call fans out over such a list.
C15_NoFanOutOverDuplicateModuleKinds ==
    NormalEmit =>
        \A i, j \in 1..Len(Called.moduleKindsToEmit) :
            i # j => Called.moduleKindsToEmit[i].moduleKind
                       # Called.moduleKindsToEmit[j].moduleKind

\* C16: at most one compiler object has a wrapper as its emitFiles, and it is
\* the recorded one; the saved _baseEmitFiles is never a wrapper; so an emit
\* call through the wrapper reaches original emitFiles only, at most |V|
\* times for a normal call and once for a flagged one.
C16_AtMostOneWrapperNeverNested ==
    /\ Cardinality({ts \in Compilers : emitFiles[ts].kind = "wrapper"}) <= 1
    /\ \A ts \in Compilers : emitFiles[ts].kind = "wrapper" => patchedTs = ts
    /\ baseEmitFiles.kind # "wrapper"
    /\ EmitViaWrapper =>
          /\ lastCall.error \notin {"RangeError", "TypeError"}
          /\ \A i \in 1..Len(lastCall.calls) : lastCall.calls[i].fn.kind = "original"
          /\ Len(lastCall.calls) <=
                IF lastCall.arguments.emitOnlyDtsFiles \/ lastCall.arguments.onlyBuildInfo
                THEN 1
                ELSE Len(Called.moduleKindsToEmit)

\* The second compiler object is the patched one, the first has its original
\* emitFiles, and a normal emit call fanned out over two variants.
C16_Witness ==
    /\ NormalEmit
    /\ lastCall.ts = "ts2"
    /\ patchedTs = "ts2"
    /\ Len(lastCall.calls) = 2
    /\ emitFiles["ts1"] = OriginalEmitFiles("ts1")
    /\ baseEmitFiles = OriginalEmitFiles("ts2")

\* C17: a step changes a changed-files Set only when it is a normal emit call
\* with a target through a wrapper installed with that Set, and then by
\* adding the target; flagged calls, calls without a target, install and
\* uninstall leave every Set as it was.  So every Set holds exactly the
\* targets of the normal emit calls made through a wrapper installed with it.
C17_OnlyNormalEmitChangesSink ==
    [][/\ changedFiles' # changedFiles =>
             /\ RecordingEmitStep
             /\ changedFiles' =
                   [changedFiles EXCEPT
                       ![emitFiles[lastCall'.ts].changedFiles] =
                           @ \cup {lastCall'.arguments.targetSourceFile}]
       /\ changedFiles' = normalTargets']_vars

\* A flagged call for a target went through a wrapper installed with a Set
\* that holds another target only.
C17_Witness ==
    /\ FlaggedEmit
    /\ Returned
    /\ Called.changedFiles # Undefined
    /\ lastCall.arguments.targetSourceFile # Undefined
    /\ changedFiles[Called.changedFiles] # {}
    /\ lastCall.arguments.targetSourceFile \notin changedFiles[Called.changedFiles]

\* C18: when a normal emit call with a target, through a wrapper installed
\* with a changed-files Set, fails in its fan-out (an invocation throws, or a
\* variant has no output folder), the target is in the Set all the same; this
\* includes a failure on the first variant.
C18_TargetRecordedWhenFanOutFails ==
    (/\ NormalEmit
     /\ ~Returned
     /\ lastCall.arguments.targetSourceFile # Undefined
     /\ Called.changedFiles # Undefined)
    => lastCall.arguments.targetSourceFile \in changedFiles[Called.changedFiles]

\* The first of two variants threw, and the Set holds the target, which it
\* holds for this call only.
C18_Witness ==
    /\ NormalEmit
    /\ Len(Called.moduleKindsToEmit) = 2
    /\ Len(lastCall.calls) = 1
    /\ lastCall.calls[1].threw
    /\ lastCall.error = "EmitError"
    /\ Called.changedFiles # Undefined
    /\ lastCall.arguments.targetSourceFile = "x.ts"
    /\ changedFiles[Called.changedFiles] = {"x.ts"}

\* The step is an uninstall on the compiler of the install that has just failed.
CleanupStep ==
    /\ lastCall.op = "install"
    /\ lastCall.error # "none"
    /\ lastCall'.op = "uninstall"
    /\ lastCall'.ts = lastCall.ts

\* The step is an install of a list with one primary, the call before it
\* having been such an uninstall.
InstallAfterCleanupStep ==
    /\ cleanup # "n/a"
    /\ lastCall'.op = "install"
    /\ lastCall'.primaries = 1

====
